---- MODULE Spec2Model ----
(***************************************************************************)
(* A state-machine model of MangaReader (src/manga_reader.py): the paced,  *)
(* retried fetcher, chapter discovery, the pickled chapter index and the   *)
(* chapter / page download loops.  The program is sequential; the model    *)
(* keeps its call stack explicitly and takes one step per request or per   *)
(* return into a caller.                                                   *)
(*                                                                         *)
(* Time is kept relative to the clock: next_request_time holds             *)
(* max(0, self._next_request_time - time.time()).                          *)
(***************************************************************************)
EXTENDS Integers, Sequences, FiniteSets, TLC

\* ---------------------------------------------------------------- bounds

\* Client calls (public methods, or a new instance) in one behaviour.
MaxCalls == 2
\* Failure events in one behaviour: one failed attempt, an outage that fails
\* every attempt of one get_page_source call, or a page that lacks its markup.
MaxFailures == 1
\* Characters in the path of a url given to the constructor.
MaxPathLen == 4

\* ------------------------------------------------------ program constants

\* get_page_source / get_chapter_list / get_chapter_page: retry_count=3
DefaultRetries == 3
\* __main__: MangaReader(..., wait_time=1)
WaitTime == 1
\* __init__: retry_after=10
RetryAfter == 10

\* ---------------------------------------------------------- environment

BaseAddress == "http://www.mangareader.net"
MangaName == "manga"
MangaUrl == BaseAddress \o "/" \o MangaName

\* hrefs the series page may list under #chapterlist
Hrefs == <<"/manga/1", "/manga/2">>
LinkLists == {SubSeq(Hrefs, 1, n) : n \in 0..Len(Hrefs)}
\* the page count each chapter page shows in div#selectpage
PagesOf(chapter_url) == IF chapter_url = BaseAddress \o Hrefs[1] THEN 3 ELSE 2
\* the directory the process is started in / the absolute target directory
Root == "T"
TargetDirs == {".", Root}

\* ------------------------------------------------------------ formatting

Digit(d) ==
    CASE d = 0 -> "0" [] d = 1 -> "1" [] d = 2 -> "2" [] d = 3 -> "3"
      [] d = 4 -> "4" [] d = 5 -> "5" [] d = 6 -> "6" [] d = 7 -> "7"
      [] d = 8 -> "8" [] d = 9 -> "9"

RECURSIVE Str(_)
\* "{}".format(n)
Str(n) ==
    IF n < 0 THEN "-" \o Str(-n)
    ELSE IF n < 10 THEN Digit(n)
    ELSE Str(n \div 10) \o Digit(n % 10)

RECURSIVE Pad(_, _)
Pad(s, w) == IF Len(s) >= w THEN s ELSE Pad("0" \o s, w)

\* "{:0wd}".format(n), n >= 0
StrPad(n, w) == Pad(Str(n), w)

\* parse.urljoin(self._base_address, href) for an absolute-path href
UrlJoin(href) == BaseAddress \o href

ChapterUrls == {UrlJoin(Hrefs[i]) : i \in 1..Len(Hrefs)}

\* "{}/{}".format(chapter_url, page_num)
PageUrl(chapter_url, page_num) == chapter_url \o "/" \o Str(page_num)

\* "CH-{:03d}".format(chapter_num)
ChapterDirName(chapter_num) == "CH-" \o StrPad(chapter_num, 3)

\* get_chapter: the name the skip check looks for
SkipName(chapter_num, chapter_page) ==
    Str(chapter_num) \o "-" \o StrPad(chapter_page, 2) \o ".jpeg"

\* get_chapter_page: the name the image is saved under
ImageName(chapter_num, page_num) ==
    StrPad(chapter_num, 3) \o "-" \o Str(page_num) \o ".jpeg"

\* a relative name resolved against the working directory
Join(dir, name) == dir \o "/" \o name

\* ---------------------------------------------------------- validate_url

\* parse.urlparse(url): the parts the program reads, the path as a sequence
\* of characters
Url(netloc, path) == [netloc |-> netloc, path |-> path]
\* parse.urlparse(self._base_address).netloc
SourceNetloc == "www.mangareader.net"

RECURSIVE LStrip(_)
LStrip(s) == IF s # <<>> /\ Head(s) = "/" THEN LStrip(Tail(s)) ELSE s
RECURSIVE RStrip(_)
RStrip(s) ==
    IF s # <<>> /\ s[Len(s)] = "/" THEN RStrip(SubSeq(s, 1, Len(s) - 1)) ELSE s
\* s.strip("/")
Strip(s) == RStrip(LStrip(s))

RECURSIVE Split(_)
\* s.split("/")
Split(s) ==
    IF \A i \in 1..Len(s) : s[i] # "/" THEN <<s>>
    ELSE LET i == CHOOSE j \in 1..Len(s) :
                      s[j] = "/" /\ \A h \in 1..(j - 1) : s[h] # "/"
         IN <<SubSeq(s, 1, i - 1)>> \o Split(SubSeq(s, i + 1, Len(s)))

\* self.validate_url(url)
ValidateUrl(url) ==
    IF url.netloc # SourceNetloc THEN FALSE
    ELSE IF url.path = <<>> THEN FALSE
    ELSE IF Len(Split(Strip(Tail(url.path)))) > 1 THEN FALSE
    ELSE TRUE

\* ---------------------------------------------------------------- bodies

\* A response body: the parts of the markup the program selects from it.
\*   links  - hrefs of "#chapterlist a"
\*   marker - last token of div#selectpage (-1: element absent)
\*   img    - src of img#img ("": element absent)
\*   data   - the raw bytes otherwise
None == [none |-> TRUE, links |-> <<>>, marker |-> -1, img |-> "", data |-> ""]
Body(links, marker, img, data) ==
    [none |-> FALSE, links |-> links, marker |-> marker, img |-> img, data |-> data]

\* len(page_src)
BodyLen(b) ==
    Len(b.links) + (IF b.marker >= 0 THEN 1 ELSE 0)
                 + (IF b.img # "" THEN 1 ELSE 0) + Len(b.data)

\* What the site may answer with status 200 for a url.
ImageUrlOf(page_url) == page_url \o ".jpg"
Serve(url) ==
    IF url = MangaUrl THEN {Body(l, -1, "", "html") : l \in LinkLists}
    ELSE IF url \in ChapterUrls
        THEN {Body(<<>>, m, "", "html") : m \in {PagesOf(url), -1}}
    ELSE IF \E u \in ChapterUrls, p \in 0..9 : url = ImageUrlOf(PageUrl(u, p))
        THEN {Body(<<>>, -1, "", "jpeg")}
    ELSE {Body(<<>>, -1, i, "html") : i \in {"", ImageUrlOf(url)}}

\* ------------------------------------------------------- the chapter index

\* self._available_chapters: a dict in insertion order, as a sequence of
\* entries [num, url, pages] with distinct num.
EmptyIndex == <<>>
Keys(ix) == [i \in 1..Len(ix) |-> ix[i].num]
KeySet(ix) == {ix[i].num : i \in 1..Len(ix)}
Has(ix, k) == k \in KeySet(ix)
Pos(ix, k) == CHOOSE i \in 1..Len(ix) : ix[i].num = k
Entry(k, url, pages) == [num |-> k, url |-> url, pages |-> pages]
\* dict.get(k, (None, 0)); None is the empty url here
Get(ix, k) == IF Has(ix, k) THEN ix[Pos(ix, k)] ELSE Entry(k, "", 0)
\* d[k] = (url, pages)
Put(ix, k, url, pages) ==
    IF Has(ix, k) THEN [ix EXCEPT ![Pos(ix, k)] = Entry(k, url, pages)]
    ELSE Append(ix, Entry(k, url, pages))
RECURSIVE Update(_, _)
\* old.update(new)
Update(old, new) ==
    IF new = <<>> THEN old
    ELSE Update(Put(old, new[1].num, new[1].url, new[1].pages), Tail(new))

\* ----------------------------------------------------------------- state

VARIABLES
    \* the MangaReader instance
    target_dir,          \* self._target_dir
    retry_count,         \* self._retry_count (the constructor's retries)
    available_chapters,  \* self._available_chapters
    total_req_count,     \* self._total_req_count
    total_bytes,         \* self._total_bytes
    next_request_time,   \* self._next_request_time, relative to the clock
    \* the process and the file system under Root
    cwd,                 \* os.getcwd()
    dirs,                \* directories that exist
    images,              \* image files that exist
    pkl,                 \* the pickled indexes: path |-> index
    down,                \* the site is down until the client call ends
    stack,               \* the call stack, innermost frame last
    ret,                 \* what the last get_page_source returned
    raised,              \* the exception the last client call ended with
    \* observation (not read by the program)
    calls_left,          \* client calls still allowed
    fail_left,           \* failure events still allowed
    obs                  \* counters and logs about the calls made so far

vars == <<target_dir, retry_count, available_chapters, total_req_count,
          total_bytes, next_request_time, cwd, dirs, images, pkl, down,
          stack, ret, raised, calls_left, fail_left, obs>>

config == <<target_dir, retry_count>>
counters == <<total_req_count, total_bytes>>
fsys == <<dirs, images, pkl>>

\* ---------------------------------------------------------------- frames

Frame(fn, pc) ==
    [fn |-> fn, pc |-> pc, url |-> "", rc |-> 0, ch |-> 0, pg |-> 0,
     links |-> <<>>, i |-> 0, name |-> "", aux |-> 0]

Top == stack[Len(stack)]
Rest == SubSeq(stack, 1, Len(stack) - 1)
At(fn, pc) == stack # <<>> /\ Top.fn = fn /\ Top.pc = pc
Idle == stack = <<>>

\* a call self.get_page_source(url): retry_count takes its default
\* (aux: the outage the call is in, see Fails)
FetchFrame(url) ==
    [Frame("get_page_source", "wait") EXCEPT
        !.url = url, !.rc = DefaultRetries, !.aux = IF down THEN 1 ELSE 0]

\* obs: what the claims observe
\*   op, arg   the client call running (or last run) and its arguments
\*             (for grab_all_chapters: the index file it looks for)
\*   fetched   get_page_source has been called since op began
\*   attempts  transport attempts of the current / last get_page_source call
\*   since_ok  time since the last successful request completed (-1: none yet),
\*             saturating at WaitTime
\*   gap       since_ok when the last successful request was started
\*   found     the series page or a chapter page was requested since op began
\*   chapters  chapter numbers get_chapter was run for since op began
\*   saves     the indexes saved to Root's index file, oldest first
\*   clean     <<chapter, dir>>: a get_chapter that saved every page
\*   loaded    load_chapter_list found an index when op began
\*   persisted the target directory held an index file when op began
\*   was_clean <<arg, its chapter directory>> was in clean when op began
\*   passes    get_chapter_list invocations since op began
\*   exhausted a chapter page failed with no discovery retry left since op began
\*   url       the page view get_page_source was last called for since op began
\*   views     get_page_source calls made in a row for that page view (kept up
\*             to two past the default budget)
\*   imaged    get_page_source calls made for its image
\*   wrote     its image file has been written
Obs0 ==
    [op |-> "new", arg |-> <<>>, fetched |-> FALSE, found |-> FALSE,
     attempts |-> 0, since_ok |-> -1, gap |-> -1, chapters |-> <<>>,
     saves |-> <<>>, clean |-> {}, loaded |-> FALSE, persisted |-> FALSE,
     was_clean |-> FALSE, passes |-> 0, exhausted |-> FALSE,
     url |-> "", views |-> 0, imaged |-> 0, wrote |-> FALSE]

\* the urls of page views and of images
IsView(url) == \E u \in ChapterUrls, p \in 0..9 : url = PageUrl(u, p)
IsImage(url) == \E u \in ChapterUrls, p \in 0..9 : url = ImageUrlOf(PageUrl(u, p))

\* obs when the program calls get_page_source(url)
ObsFetch(o, url) ==
    [o EXCEPT !.fetched = TRUE, !.attempts = 0,
              !.found = @ \/ url = MangaUrl \/ url \in ChapterUrls,
              \* the series page is requested by get_chapter_list's first statement
              !.passes = IF url = MangaUrl THEN @ + 1 ELSE @,
              !.url = IF IsView(url) THEN url ELSE @,
              !.views = IF ~IsView(url) THEN @
                        ELSE IF url # o.url THEN 1
                        ELSE IF @ > DefaultRetries THEN DefaultRetries + 2
                        ELSE @ + 1,
              !.imaged = IF IsView(url) /\ url # o.url THEN 0
                         ELSE IF IsImage(url) THEN @ + 1 ELSE @,
              !.wrote = IF IsView(url) /\ url # o.url THEN FALSE ELSE @]

\* obs with no page in progress
ObsNoPage(o) ==
    [o EXCEPT !.url = "", !.views = 0, !.imaged = 0, !.wrote = FALSE]

\* obs when a client call begins
ObsCall(o, op, arg) ==
    [o EXCEPT !.op = op, !.arg = arg, !.fetched = FALSE, !.found = FALSE,
              !.attempts = 0, !.chapters = <<>>, !.loaded = FALSE,
              !.persisted = FALSE, !.was_clean = FALSE,
              !.passes = 0, !.exhausted = FALSE,
              !.url = "", !.views = 0, !.imaged = 0, !.wrote = FALSE]

\* ------------------------------------------------------------------ time

Min(a, b) == IF a < b THEN a ELSE b
Max(a, b) == IF a > b THEN a ELSE b

\* the wait loop's exit condition
WaitOver == next_request_time = 0

\* d units of time pass
Later(t, d) == Max(0, t - d)
Elapsed(o, d) ==
    [o EXCEPT !.since_ok = IF @ < 0 THEN @ ELSE Min(WaitTime, @ + d)]

\* while time.time() < self._next_request_time: pass
\* The loop spins while the clock advances by one unit.
Tick ==
    /\ At("get_page_source", "wait") /\ ~WaitOver
    /\ next_request_time' = Later(next_request_time, 1)
    /\ obs' = Elapsed(obs, 1)
    /\ UNCHANGED <<config, down, available_chapters, counters, cwd, fsys, stack, ret,
                   raised, calls_left, fail_left>>

\* ------------------------------------------------------- get_page_source

\* a fetcher that leaves the next request time as it was
NextRequestTimeKept == next_request_time

\* get_page_source: self._next_request_time = time.time() + self._wait_time
NextRequestTime == WaitTime

\* a retry that passes its own budget on
RetriedSame(frame, outage) == [frame EXCEPT !.aux = outage]

\* return self.get_page_source(url, (retry_count-1)): the call that takes
\* this call's place
Retried(frame, outage) == [frame EXCEPT !.rc = @ - 1, !.aux = outage]

\* one more transport attempt of the call (the count is kept up to two past
\* the default budget)
Attempted(o) == [o EXCEPT !.attempts = Min(@ + 1, DefaultRetries + 2)]

\* finally: retry after a sleep, or give the result to the caller
\* (outage: the mode the environment leaves the call in)
Finally(status, page_src, outage) ==
    IF ~status /\ Top.rc > 0
    THEN /\ stack' = Rest \o <<Retried(Top, outage)>>
         /\ UNCHANGED ret
    ELSE /\ stack' = Rest
         /\ ret' = [status |-> status, body |-> page_src]

\* the sleep before a retry
Slept(status) == IF ~status /\ Top.rc > 0 THEN RetryAfter ELSE 0

\* The environment fails an attempt in mode m (1: the transport raises,
\* 2: the response is not 200): a single failed attempt, or the start of an
\* outage of mode m (both failure events), or one more attempt of an outage.
Fails(m, outage) ==
    IF Top.aux = 0 THEN fail_left > 0 /\ fail_left' = fail_left - 1
    ELSE Top.aux = m /\ outage = m /\ UNCHANGED fail_left

\* The site goes down (a failure event): the transport raises at every
\* attempt of this and of every later request of the running client call.
SiteDown ==
    /\ At("get_page_source", "wait") /\ Top.aux = 0 /\ ~down
    /\ fail_left > 0
    /\ fail_left' = fail_left - 1
    /\ down' = TRUE
    /\ stack' = [stack EXCEPT ![Len(stack)].aux = 1]
    /\ UNCHANGED <<config, available_chapters, counters, next_request_time,
                   cwd, fsys, ret, raised, calls_left, obs>>

\* self._req_opener.open / rsp.read raise
TransportError ==
    /\ At("get_page_source", "wait") /\ WaitOver
    /\ \E outage \in {0, 1} :
        /\ Fails(1, outage)
        /\ Finally(FALSE, None, outage)
    /\ next_request_time' = Later(next_request_time, Slept(FALSE))
    /\ obs' = Elapsed(Attempted(obs), Slept(FALSE))
    /\ UNCHANGED <<config, down, available_chapters, counters, cwd, fsys, raised,
                   calls_left>>

\* a fetcher that does not count its requests
RequestedSame(count) == count

\* self._total_req_count += 1
Requested(count) == count + 1

\* a response whose code is 2xx but not 200
ResponseNot200 ==
    /\ At("get_page_source", "wait") /\ WaitOver
    /\ \E outage \in {0, 2}, page_src \in Serve(Top.url) :
        /\ Fails(2, outage)
        /\ Finally(FALSE, page_src, outage)
    /\ total_req_count' = Requested(total_req_count)
    /\ next_request_time' = Later(NextRequestTime, Slept(FALSE))
    /\ obs' = Elapsed(Attempted(obs), Slept(FALSE))
    /\ UNCHANGED <<config, down, available_chapters, total_bytes, cwd, fsys, raised,
                   calls_left>>

\* absent markup counts as a failure event
Absent(url, b) ==
    IF url = MangaUrl THEN b.links = <<>>
    ELSE IF url \in ChapterUrls THEN b.marker < 0
    ELSE b.img = "" /\ b.data = "html"

\* a response with code 200
Response200 ==
    /\ At("get_page_source", "wait") /\ WaitOver
    /\ Top.aux = 0
    /\ \E page_src \in Serve(Top.url) :
        /\ Absent(Top.url, page_src) => fail_left > 0
        /\ fail_left' = IF Absent(Top.url, page_src) THEN fail_left - 1
                        ELSE fail_left
        /\ Finally(TRUE, page_src, 0)
        /\ total_bytes' = total_bytes + BodyLen(page_src)
        /\ total_req_count' = Requested(total_req_count)
        /\ next_request_time' = NextRequestTime
        /\ obs' = [Attempted(obs) EXCEPT !.since_ok = 0, !.gap = obs.since_ok]
    /\ UNCHANGED <<config, down, available_chapters, cwd, fsys, raised, calls_left>>

\* ------------------------------------------------------ get_chapter_list

NoError == [type |-> "", ch |-> 0]

\* self.get_chapter_list(retry_count): its first statement is the request
\* of the series page
ChapterListFrames(rc) ==
    <<[Frame("get_chapter_list", "series") EXCEPT !.rc = rc],
      FetchFrame(MangaUrl)>>

\* the for loop over chapters_links moves on to link i (or ends)
LoopAt(frame, i) ==
    IF i > Len(frame.links) THEN <<>>
    ELSE <<[frame EXCEPT !.pc = "chapter", !.i = i,
                         !.url = UrlJoin(frame.links[i])],
           FetchFrame(UrlJoin(frame.links[i]))>>

\* the series page has been requested
ChapterListSeries ==
    /\ At("get_chapter_list", "series")
    /\ LET links == ret.body.links IN
       IF ret.status
       THEN IF links # <<>>
            THEN /\ stack' = Rest \o LoopAt([Top EXCEPT !.links = links], 1)
                 /\ obs' = ObsFetch(obs, UrlJoin(links[1]))
            ELSE stack' = Rest /\ UNCHANGED obs
       ELSE IF Top.rc > 0
            \* the last statement: the recursive call takes this call's place
            THEN /\ stack' = Rest \o ChapterListFrames(Top.rc - 1)
                 /\ obs' = ObsFetch(obs, MangaUrl)
            ELSE stack' = Rest /\ UNCHANGED obs
    /\ UNCHANGED <<config, down, available_chapters, counters, next_request_time,
                   cwd, fsys, ret, raised, calls_left, fail_left>>

\* raise (Exception, "...") raises TypeError: a tuple is no exception; no
\* caller catches it
RaiseTypeError(ch) ==
    /\ stack' = <<>>
    /\ raised' = [type |-> "TypeError", ch |-> ch]

\* a discovery that records only the chapters whose page count it found
RecordedCounted(index, ch_num, chapter_url, marker) ==
    IF marker >= 0 THEN Put(index, ch_num, chapter_url, marker) ELSE index

\* the record written for chapter ch_num whose page shows marker
Recorded(index, ch_num, chapter_url, marker) ==
    IF marker >= 0 THEN Put(index, ch_num, chapter_url, marker)
    ELSE Put(index, ch_num, chapter_url, 0)

\* a chapter page has been requested
ChapterListChapter ==
    /\ At("get_chapter_list", "chapter")
    /\ IF ret.status
       THEN /\ available_chapters' =
                   Recorded(available_chapters, Top.i, Top.url, ret.body.marker)
            /\ IF ret.body.marker >= 0
               THEN /\ stack' = Rest \o LoopAt(Top, Top.i + 1)
                    /\ obs' = IF Top.i + 1 > Len(Top.links) THEN obs
                              ELSE ObsFetch(obs, UrlJoin(Top.links[Top.i + 1]))
                    /\ UNCHANGED raised
               ELSE RaiseTypeError(Top.i) /\ UNCHANGED obs
       ELSE /\ UNCHANGED <<available_chapters, raised>>
            /\ IF Top.rc > 0
               THEN /\ stack' = Rest \o <<[Top EXCEPT !.pc = "retried"]>>
                                     \o ChapterListFrames(Top.rc - 1)
                    /\ obs' = ObsFetch(obs, MangaUrl)
               ELSE /\ stack' = Rest \o LoopAt(Top, Top.i + 1)
                    /\ obs' = LET o == [obs EXCEPT !.exhausted = TRUE] IN
                              IF Top.i + 1 > Len(Top.links) THEN o
                              ELSE ObsFetch(o, UrlJoin(Top.links[Top.i + 1]))
    /\ UNCHANGED <<config, down, counters, next_request_time, cwd, fsys, ret,
                   calls_left, fail_left>>

\* the recursive call made inside the loop has returned: the loop goes on
ChapterListRetried ==
    /\ At("get_chapter_list", "retried")
    /\ stack' = Rest \o LoopAt(Top, Top.i + 1)
    /\ obs' = IF Top.i + 1 > Len(Top.links) THEN obs
              ELSE ObsFetch(obs, UrlJoin(Top.links[Top.i + 1]))
    /\ UNCHANGED <<config, down, available_chapters, counters, next_request_time,
                   cwd, fsys, ret, raised, calls_left, fail_left>>

\* ------------------------------------------- save / load of the index

\* "{}.pkl".format(self._manga_name), in the working directory
DataFile == Join(cwd, MangaName \o ".pkl")
\* the index file of the series in its target directory ("." is Root)
RootDataFile == Join(Root, MangaName \o ".pkl")

\* a save that replaces the index file
SavedOverwrite(files, data_file, index) ==
    [f \in DOMAIN files \cup {data_file} |->
        IF f = data_file THEN index ELSE files[f]]

\* what save_chapter_list leaves in the index files
Saved(files, data_file, index) ==
    IF data_file \notin DOMAIN files THEN files @@ (data_file :> index)
    ELSE [files EXCEPT ![data_file] = Update(@, index)]

\* load_chapter_list: its status, and the index it leaves in memory
LoadStatus == DataFile \in DOMAIN pkl
Loaded == IF LoadStatus THEN pkl[DataFile] ELSE available_chapters

\* ---------------------------------------------------------- get_chapter

\* os.chdir(self._target_dir) from directory dir
ChdirTarget(dir) == IF target_dir = "." THEN dir ELSE target_dir

\* self.get_chapter(chapter_num) up to its loop: the frame it runs in
\* (none when the chapter is not in the index)
ChapterFrames(chapter_num) ==
    LET e == Get(available_chapters, chapter_num) IN
    IF e.url # ""
    THEN <<[Frame("get_chapter", "loop") EXCEPT
              !.ch = chapter_num, !.pg = 1, !.i = e.pages, !.aux = fail_left]>>
    ELSE <<>>
ChapterDirs(chapter_num) ==
    IF Get(available_chapters, chapter_num).url # ""
    THEN dirs \cup {Join(cwd, ChapterDirName(chapter_num))}
    ELSE dirs
ChapterCwd(chapter_num) ==
    IF Get(available_chapters, chapter_num).url # ""
    THEN Join(cwd, ChapterDirName(chapter_num))
    ELSE cwd

\* elif 0 >= page_num > chapter_pages_count
PageUnavailable(page_num, chapter_pages_count) ==
    0 >= page_num /\ page_num > chapter_pages_count

\* self.get_chapter_page(chapter_num, page_num, retry_count) up to its request
PageFrames(chapter_num, page_num, rc) ==
    LET e == Get(available_chapters, chapter_num) IN
    IF e.url = "" THEN <<>>
    ELSE IF PageUnavailable(page_num, e.pages) THEN <<>>
    ELSE <<[Frame("get_chapter_page", "view") EXCEPT
              !.ch = chapter_num, !.pg = page_num, !.rc = rc,
              !.url = PageUrl(e.url, page_num)],
           FetchFrame(PageUrl(e.url, page_num))>>

ObsFrames(o, frames) ==
    IF frames = <<>> THEN o ELSE ObsFetch(o, frames[Len(frames)].url)

\* the for loop over the chapter's pages
ChapterLoop ==
    /\ At("get_chapter", "loop")
    /\ IF Top.pg > Top.i
       THEN /\ cwd' = ChdirTarget(cwd)
            /\ stack' = Rest
            /\ obs' = IF fail_left = Top.aux /\ Top.i > 0
                      THEN [ObsNoPage(obs) EXCEPT !.clean = @ \cup {<<Top.ch, cwd>>}]
                      ELSE ObsNoPage(obs)
       ELSE IF Join(cwd, SkipName(Top.ch, Top.pg)) \in images
       THEN /\ stack' = Rest \o <<[Top EXCEPT !.pg = @ + 1]>>
            /\ UNCHANGED <<cwd, obs>>
       ELSE /\ stack' = Rest \o <<[Top EXCEPT !.pg = @ + 1]>>
                             \o PageFrames(Top.ch, Top.pg, DefaultRetries)
            /\ obs' = ObsFrames(obs, PageFrames(Top.ch, Top.pg, DefaultRetries))
            /\ UNCHANGED cwd
    /\ UNCHANGED <<config, down, available_chapters, counters, next_request_time,
                   fsys, ret, raised, calls_left, fail_left>>

\* ----------------------------------------- get_chapter_page, save_image

\* a retry of the page that passes its own budget on
PageRetriedSame(frame) == PageFrames(frame.ch, frame.pg, frame.rc)

\* self.get_chapter_page(chapter_num, page_num, retry_count=(retry_count-1))
PageRetried(frame) == PageFrames(frame.ch, frame.pg, frame.rc - 1)

\* the page view has been requested
PageView ==
    /\ At("get_chapter_page", "view")
    /\ IF ret.status
       THEN IF ret.body.img # ""
            \* self.save_image(image_url, image_name), the last statement
            THEN /\ stack' = Rest \o
                       <<[Frame("save_image", "image") EXCEPT
                            !.url = ret.body.img,
                            !.name = ImageName(Top.ch, Top.pg)],
                         FetchFrame(ret.body.img)>>
                 /\ obs' = ObsFetch(obs, ret.body.img)
            ELSE stack' = Rest /\ UNCHANGED obs
       ELSE IF Top.rc > 0
            \* the last statement: the recursive call takes this call's place
            THEN /\ stack' = Rest \o PageRetried(Top)
                 /\ obs' = ObsFrames(obs, PageRetried(Top))
            ELSE stack' = Rest /\ UNCHANGED obs
    /\ UNCHANGED <<config, down, available_chapters, counters, next_request_time,
                   cwd, fsys, ret, raised, calls_left, fail_left>>

\* the image has been requested
SaveImage ==
    /\ At("save_image", "image")
    /\ images' = IF ret.status THEN images \cup {Join(cwd, Top.name)} ELSE images
    /\ stack' = Rest
    /\ obs' = [obs EXCEPT !.wrote = @ \/ ret.status]
    /\ UNCHANGED <<config, down, available_chapters, counters, next_request_time,
                   cwd, dirs, pkl, ret, raised, calls_left, fail_left>>

\* ---------------------------------------------------- grab_all_chapters

\* the index has been discovered: save it, then download
GrabDiscovered ==
    /\ At("grab_all_chapters", "discover")
    /\ pkl' = Saved(pkl, DataFile, available_chapters)
    /\ stack' = Rest \o <<[Top EXCEPT !.pc = "loop", !.i = 0]>>
    /\ obs' = IF cwd = Root THEN [obs EXCEPT !.saves = Append(@, available_chapters)]
              ELSE obs
    /\ UNCHANGED <<config, down, available_chapters, counters, next_request_time,
                   cwd, dirs, images, ret, raised, calls_left, fail_left>>

\* for chapter_num in self._available_chapters.keys(): self.get_chapter(...)
GrabLoop ==
    /\ At("grab_all_chapters", "loop")
    /\ LET keys == Keys(available_chapters) IN
       IF Top.i + 1 > Len(keys)
       THEN /\ stack' = Rest
            /\ UNCHANGED <<cwd, dirs, obs>>
       ELSE /\ stack' = Rest \o <<[Top EXCEPT !.i = @ + 1]>>
                             \o ChapterFrames(keys[Top.i + 1])
            /\ dirs' = ChapterDirs(keys[Top.i + 1])
            /\ cwd' = ChapterCwd(keys[Top.i + 1])
            /\ obs' = [obs EXCEPT !.chapters = Append(@, keys[Top.i + 1])]
    /\ UNCHANGED <<config, down, available_chapters, counters, next_request_time,
                   images, pkl, ret, raised, calls_left, fail_left>>

\* ------------------------------------------------------------ the client

NoResult == [status |-> FALSE, body |-> None]

\* what a client call leaves alone, whatever it calls
Called(op, arg) ==
    /\ Idle /\ calls_left > 0
    /\ calls_left' = calls_left - 1
    /\ raised' = NoError
    /\ ret' = NoResult
    /\ down' = FALSE
    /\ UNCHANGED <<config, counters, next_request_time, fail_left>>

\* reader.grab_all_chapters()
CallGrabAllChapters ==
    /\ Called("grab_all_chapters", <<DataFile>>)
    /\ available_chapters' = Loaded
    /\ stack' = IF LoadStatus
                THEN <<[Frame("grab_all_chapters", "loop") EXCEPT !.i = 0]>>
                ELSE <<Frame("grab_all_chapters", "discover")>>
                     \o ChapterListFrames(DefaultRetries)
    /\ obs' = LET o == [ObsCall(obs, "grab_all_chapters", <<DataFile>>)
                          EXCEPT !.loaded = LoadStatus,
                                 !.persisted = RootDataFile \in DOMAIN pkl]
              IN IF LoadStatus THEN o ELSE ObsFetch(o, MangaUrl)
    /\ UNCHANGED <<cwd, fsys>>

\* reader.get_chapter_list(retry_count)
CallGetChapterList(rc) ==
    /\ Called("get_chapter_list", <<rc>>)
    /\ stack' = ChapterListFrames(rc)
    /\ obs' = ObsFetch(ObsCall(obs, "get_chapter_list", <<rc>>), MangaUrl)
    /\ UNCHANGED <<available_chapters, cwd, fsys>>

\* reader.save_chapter_list()
CallSaveChapterList ==
    /\ Called("save_chapter_list", <<>>)
    /\ pkl' = Saved(pkl, DataFile, available_chapters)
    /\ obs' = LET o == ObsCall(obs, "save_chapter_list", <<>>) IN
              IF cwd = Root THEN [o EXCEPT !.saves = Append(@, available_chapters)]
              ELSE o
    /\ UNCHANGED <<available_chapters, cwd, dirs, images, stack>>

\* reader.load_chapter_list()
CallLoadChapterList ==
    /\ Called("load_chapter_list", <<>>)
    /\ available_chapters' = Loaded
    /\ obs' = [ObsCall(obs, "load_chapter_list", <<>>) EXCEPT !.loaded = LoadStatus]
    /\ UNCHANGED <<cwd, fsys, stack>>

\* reader.get_chapter(chapter_num)
CallGetChapter(chapter_num) ==
    /\ Called("get_chapter", <<chapter_num>>)
    /\ stack' = ChapterFrames(chapter_num)
    /\ dirs' = ChapterDirs(chapter_num)
    /\ cwd' = ChapterCwd(chapter_num)
    /\ obs' = [ObsCall(obs, "get_chapter", <<chapter_num>>) EXCEPT
                 !.chapters = <<chapter_num>>,
                 !.was_clean = <<chapter_num, ChapterCwd(chapter_num)>> \in obs.clean]
    /\ UNCHANGED <<available_chapters, images, pkl>>

\* reader.get_chapter_page(chapter_num, page_num)
CallGetChapterPage(chapter_num, page_num) ==
    /\ Called("get_chapter_page", <<chapter_num, page_num>>)
    /\ stack' = PageFrames(chapter_num, page_num, DefaultRetries)
    /\ obs' = ObsFrames(ObsCall(obs, "get_chapter_page", <<chapter_num, page_num>>),
                        PageFrames(chapter_num, page_num, DefaultRetries))
    /\ UNCHANGED <<available_chapters, cwd, fsys>>

\* reader.get_page_source(url)
CallGetPageSource(url) ==
    /\ Called("get_page_source", <<url>>)
    /\ stack' = <<FetchFrame(url)>>
    /\ obs' = ObsFetch(ObsCall(obs, "get_page_source", <<url>>), url)
    /\ UNCHANGED <<available_chapters, cwd, fsys>>

\* The process ends; a new one, started in Root, constructs a MangaReader
\* for the same series and target directory.
NewInstance ==
    /\ Idle /\ calls_left > 0
    /\ calls_left' = calls_left - 1
    /\ available_chapters' = EmptyIndex
    /\ total_req_count' = 0
    /\ total_bytes' = 0
    /\ next_request_time' = WaitTime
    /\ cwd' = Root
    /\ raised' = NoError
    /\ obs' = [ObsCall(obs, "new", <<>>) EXCEPT !.since_ok = -1, !.gap = -1]
    /\ down' = FALSE
    /\ UNCHANGED <<config, fsys, stack, ret, fail_left>>

\* MangaReader(manga_url, target_dir) in a new process started in Root:
\* raise ValueError unless the url validates
MangaReaderNew(url) ==
    /\ Idle /\ calls_left > 0
    /\ calls_left' = calls_left - 1
    /\ IF ValidateUrl(url)
       THEN /\ available_chapters' = EmptyIndex
            /\ total_req_count' = 0
            /\ total_bytes' = 0
            /\ next_request_time' = WaitTime
            /\ raised' = NoError
       ELSE /\ raised' = [type |-> "ValueError", ch |-> 0]
            /\ UNCHANGED <<available_chapters, counters, next_request_time>>
    /\ cwd' = Root
    /\ obs' = [ObsCall(obs, "MangaReader", <<url>>) EXCEPT
                 !.since_ok = -1, !.gap = -1]
    /\ down' = FALSE
    /\ UNCHANGED <<config, fsys, stack, ret, fail_left>>

\* ----------------------------------------------------- the specifications

\* chapter and page numbers a client passes
ChapterNums == 1..Len(Hrefs)
PageNums == {0, 3}

\* Index files an earlier run may have left in Root: none; the empty index
\* of a discovery that found nothing; a chapter recorded without its page
\* count; the whole series.
Url1 == UrlJoin(Hrefs[1])
Url2 == UrlJoin(Hrefs[2])
PriorIndexes ==
    {<<>>,
     <<Entry(1, Url1, 0)>>,
     <<Entry(1, Url1, PagesOf(Url1)), Entry(2, Url2, PagesOf(Url2))>>}
PriorFiles == {<<>>} \cup {RootDataFile :> ix : ix \in PriorIndexes}

\* The state after MangaReader(manga_url, target_dir, retries=r) in a
\* process started in Root, r in rs, with the budgets of the model.
Constructed(rs, calls, fails) ==
    /\ target_dir \in TargetDirs
    /\ retry_count \in rs
    /\ available_chapters = EmptyIndex
    /\ total_req_count = 0
    /\ total_bytes = 0
    /\ next_request_time = WaitTime
    /\ cwd = Root
    /\ dirs = {Root}
    /\ images = {}
    /\ pkl \in PriorFiles
    /\ down = FALSE
    /\ stack = <<>>
    /\ ret = NoResult
    /\ raised = NoError
    /\ calls_left = calls
    /\ fail_left = fails
    /\ obs = [Obs0 EXCEPT !.saves = IF pkl = <<>> THEN <<>>
                                    ELSE <<pkl[RootDataFile]>>]

Fetcher == Tick \/ TransportError \/ ResponseNot200 \/ Response200

Discovery == ChapterListSeries \/ ChapterListChapter \/ ChapterListRetried

Download == ChapterLoop \/ PageView \/ SaveImage

\* The crawl: full crawls and single chapter and page downloads, in any
\* order, over what an earlier run may have left.
Init == Constructed({DefaultRetries}, MaxCalls, MaxFailures)

Next ==
    \/ Fetcher \/ Discovery \/ Download
    \/ GrabDiscovered \/ GrabLoop
    \/ CallGrabAllChapters
    \/ \E c \in ChapterNums : CallGetChapter(c)
    \/ \E c \in ChapterNums, p \in PageNums : CallGetChapterPage(c, p)

Spec == Init /\ [][Next]_vars

\* The fetcher alone: a client calls get_page_source, for every value of the
\* constructor's retries.
FetchUrls == {MangaUrl, Url1, PageUrl(Url1, 1)}
InitFetch == Constructed(1..DefaultRetries, MaxCalls, MaxFailures)

NextFetch ==
    \/ Fetcher
    \/ \E url \in FetchUrls : CallGetPageSource(url)

SpecFetch == InitFetch /\ [][NextFetch]_vars

\* The index store: discovery, save and load over several instances.
InitStore == Constructed({DefaultRetries}, MaxCalls + 2, MaxFailures)

NextStore ==
    \/ Fetcher \/ Discovery
    \/ CallGetChapterList(DefaultRetries)
    \/ CallSaveChapterList
    \/ CallLoadChapterList
    \/ NewInstance

SpecStore == InitStore /\ [][NextStore]_vars

\* Discovery alone: a client calls get_chapter_list with a small retry budget
\* and saves what it found.
RetryBudgets == 0..1
InitDiscovery == Constructed({DefaultRetries}, MaxCalls, MaxFailures)

NextDiscovery ==
    \/ Fetcher \/ Discovery
    \/ \E rc \in RetryBudgets : CallGetChapterList(rc)
    \/ CallSaveChapterList

SpecDiscovery == InitDiscovery /\ [][NextDiscovery]_vars

\* The crawl while the site may go down: grab_all_chapters alone.
InitOutage == Constructed({DefaultRetries}, MaxCalls, MaxFailures)

NextOutage ==
    \/ Fetcher \/ SiteDown \/ Discovery \/ Download
    \/ GrabDiscovered \/ GrabLoop
    \/ CallGrabAllChapters

SpecOutage == InitOutage /\ [][NextOutage]_vars

\* The same crawl as a process that keeps running while the clock advances.
InitLive == Constructed({DefaultRetries}, MaxCalls - 1, MaxFailures)
SpecLive == InitLive /\ [][NextOutage]_vars /\ WF_vars(NextOutage)

\* Single pages: a client loads the index an earlier run left and downloads
\* pages of it while the site may go down.
InitPage == Constructed({DefaultRetries}, MaxCalls, MaxFailures)

NextPage ==
    \/ Fetcher \/ SiteDown
    \/ PageView \/ SaveImage
    \/ CallLoadChapterList
    \/ \E c \in ChapterNums, p \in PageNums : CallGetChapterPage(c, p)

SpecPage == InitPage /\ [][NextPage]_vars

\* The constructor over urls: two hosts, and every path urlparse can give
\* for them over a letter and the slash.
Netlocs == {SourceNetloc, "www.example.net"}
RECURSIVE Paths(_)
Paths(n) ==
    IF n = 0 THEN {<<>>}
    ELSE Paths(n - 1) \cup
         {<<"/">> \o p : p \in [1..(n - 1) -> {"/", "a"}]}
Urls == {Url(h, p) : h \in Netlocs, p \in Paths(MaxPathLen)}
InitUrl == Constructed({DefaultRetries}, MaxCalls, MaxFailures)

NextUrl == \E url \in Urls : MangaReaderNew(url)

SpecUrl == InitUrl /\ [][NextUrl]_vars

\* ----------------------------------------------------------- the claims

\* C1: images are write-once across runs: once get_chapter(c) has saved every
\* page of chapter c in a chapter directory, a later get_chapter(c) over the
\* same directory calls the fetcher for nothing.
C1_WriteOnce ==
    (obs.op = "get_chapter" /\ obs.was_clean) => ~obs.fetched

\* C2: a get_page_source call whose every attempt failed has made exactly
\* retries + 1 attempts, retries being the constructor's parameter.
C2_RetriesPlusOne ==
    (Idle /\ obs.op = "get_page_source" /\ ~ret.status /\ obs.attempts > 0)
        => obs.attempts = retry_count + 1

\* C3: a successful request that follows a successful request was started
\* no earlier than WaitTime after that one completed, whatever ran between.
C3_Pacing == obs.gap = -1 \/ obs.gap >= WaitTime

\* C3 witness: a later successful request, after page and image downloads
\* and a failure.
C3_Witness ==
    /\ obs.gap >= WaitTime
    /\ images # {}
    /\ fail_left < MaxFailures

\* the index as a mapping: chapter number |-> <<url, pages>>
AsMap(ix) == [k \in KeySet(ix) |-> <<Get(ix, k).url, Get(ix, k).pages>>]

\* the union of a history of indexes, the latest value of a key winning
LastWith(hist, k) ==
    CHOOSE i \in 1..Len(hist) :
        /\ k \in KeySet(hist[i])
        /\ \A j \in (i + 1)..Len(hist) : k \notin KeySet(hist[j])
UnionOf(hist) ==
    [k \in UNION {KeySet(hist[i]) : i \in 1..Len(hist)} |->
        AsMap(hist[LastWith(hist, k)])[k]]

\* C4: the index file holds the union of all indexes saved to it, the most
\* recently saved value of a chapter number winning, and load_chapter_list
\* puts exactly that in memory.
C4_IndexMerge ==
    /\ obs.saves # <<>> =>
          /\ RootDataFile \in DOMAIN pkl
          /\ AsMap(pkl[RootDataFile]) = UnionOf(obs.saves)
    /\ (obs.op = "load_chapter_list" /\ obs.loaded) =>
          AsMap(available_chapters) = UnionOf(obs.saves)

\* C4 witness: a load after two saves that gave one chapter number two
\* different values.
C4_Witness ==
    /\ obs.op = "load_chapter_list" /\ obs.loaded
    /\ Len(obs.saves) >= 2
    /\ \E k \in KeySet(obs.saves[1]) \cap KeySet(obs.saves[2]) :
          AsMap(obs.saves[1])[k] # AsMap(obs.saves[2])[k]

\* C5: from an empty target directory, a crawl of the two-chapter series (3
\* and 2 pages) in which nothing fails ends with the two-chapter index, one
\* index file and exactly the five images CH-001/1-01.jpeg .. CH-002/2-02.jpeg.
C5_EndToEnd ==
    (/\ obs.op = "grab_all_chapters" /\ Idle /\ ~obs.loaded
     /\ calls_left = MaxCalls - 1
     /\ raised = NoError /\ fail_left = MaxFailures
     /\ Len(available_chapters) = 2)
    => /\ AsMap(available_chapters) =
              (1 :> <<Url1, 3>>) @@ (2 :> <<Url2, 2>>)
       /\ DOMAIN pkl = {"T/manga.pkl"}
       /\ images = {"T/CH-001/1-01.jpeg", "T/CH-001/1-02.jpeg",
                    "T/CH-001/1-03.jpeg", "T/CH-002/2-01.jpeg",
                    "T/CH-002/2-02.jpeg"}

\* C6: no failure during a full crawl leaves grab_all_chapters as an
\* exception.
C6_NothingEscapes ==
    obs.op = "grab_all_chapters" => raised = NoError

\* C7: a grab_all_chapters that starts while the target directory holds a
\* persisted index of the series requests neither the series page nor a
\* chapter page, has the persisted index in memory, and runs get_chapter for
\* the index's chapter numbers in index order.
C7_Resume ==
    (obs.op = "grab_all_chapters" /\ obs.persisted) =>
        /\ ~obs.found
        /\ available_chapters = pkl[RootDataFile]
        /\ obs.chapters = SubSeq(Keys(available_chapters), 1, Len(obs.chapters))
        /\ Idle => obs.chapters = Keys(available_chapters)

\* C8: get_chapter_page with a page number outside 1..n, n the chapter's
\* page count, requests nothing.
C8_PageRange ==
    (/\ obs.op = "get_chapter_page"
     /\ Has(available_chapters, obs.arg[1])
     /\ \/ obs.arg[2] <= 0
        \/ obs.arg[2] > Get(available_chapters, obs.arg[1]).pages)
    => ~obs.fetched

\* C9: a chapter page without its page-count marker is recorded as
\* (chapter_url, 0), and get_chapter for a chapter recorded with 0 pages
\* never leaves the first loop test and requests nothing.
C9_Sentinel ==
    /\ raised.type = "TypeError" =>
          /\ Has(available_chapters, raised.ch)
          /\ AsMap(available_chapters)[raised.ch] = <<UrlJoin(Hrefs[raised.ch]), 0>>
    /\ \A i \in 1..Len(stack) :
          (stack[i].fn = "get_chapter"
             /\ Get(available_chapters, stack[i].ch).pages = 0)
          => (i = Len(stack) /\ stack[i].pg = 1)
    /\ (obs.op = "get_chapter" /\ Get(available_chapters, obs.arg[1]).pages = 0)
          => ~obs.fetched

\* C9 witness: discovery recorded chapter 1 without a page count (nothing was
\* ever saved or loaded), and get_chapter(1) has run to its end.
C9_Witness ==
    /\ obs.op = "get_chapter" /\ Idle
    /\ pkl = <<>>
    /\ Has(available_chapters, obs.arg[1])
    /\ Get(available_chapters, obs.arg[1]).pages = 0
    /\ Join(Root, ChapterDirName(obs.arg[1])) \in dirs

\* C10: whenever get_page_source returns a false status its body is None.
C10_FailureIsNone == ~ret.status => ret.body = None

\* C11: after get_chapter_list has returned, the chapter numbers of the index
\* are exactly 1..k for some k >= 0, whichever chapter pages failed.
C11_Dense ==
    (obs.op = "get_chapter_list" /\ Idle /\ raised = NoError)
        => KeySet(available_chapters) = 1..Len(available_chapters)

\* the records of index old are kept by index new: every chapter number is
\* still there with its url, and with its page count unless that was 0
Kept(old, new) ==
    \A k \in KeySet(old) :
        /\ Has(new, k)
        /\ Get(new, k).url = Get(old, k).url
        /\ Get(new, k).pages # Get(old, k).pages => Get(old, k).pages = 0

\* C12: over discovery passes and saves, a recorded chapter keeps its url, in
\* memory and in the index file, and its page count changes only from 0.
C12_Immutable ==
    [][/\ Kept(available_chapters, available_chapters')
       /\ \A f \in DOMAIN pkl : f \in DOMAIN pkl' /\ Kept(pkl[f], pkl'[f])]_vars

\* the non-empty segments of a path: the places where a run of characters
\* other than the slash begins
SegmentStarts(path) ==
    {i \in 1..Len(path) : path[i] # "/" /\ (i = 1 \/ path[i - 1] = "/")}

\* C13: the constructor accepts a url (validate_url returns true) exactly
\* when its host is the source domain and its path has exactly one non-empty
\* segment; the root, with or without slashes, is refused.
C13_ValidateUrl ==
    obs.op = "MangaReader" =>
        (raised = NoError <=>
            /\ obs.arg[1].netloc = SourceNetloc
            /\ Cardinality(SegmentStarts(obs.arg[1].path)) = 1)

\* C14: one get_chapter_list(N) makes at most N + 1 passes over the chapter
\* links, and once a chapter page has failed with the budget spent no
\* further chapter page is requested.
C14_BoundedRetry ==
    obs.op = "get_chapter_list" =>
        /\ obs.passes <= obs.arg[1] + 1
        /\ obs.exhausted =>
              ~(At("get_page_source", "wait") /\ Top.url \in ChapterUrls)

\* C15: get_chapter leaves the working directory where it found it, the
\* target directory, so every chapter directory is made directly under the
\* target directory.
C15_CwdRestored ==
    /\ Idle => cwd = Root
    /\ dirs \subseteq {Root} \cup {Join(Root, ChapterDirName(c)) : c \in ChapterNums}

\* C16: a grab_all_chapters that found no persisted index and whose every
\* request of the series page failed (no request of the instance has
\* succeeded) ends without an exception, with an empty index in memory and
\* with no index file for the series.
C16_NoIndex ==
    (/\ obs.op = "grab_all_chapters" /\ Idle /\ ~obs.persisted
     /\ obs.passes = DefaultRetries + 1 /\ total_bytes = 0)
    => /\ raised = NoError
       /\ available_chapters = EmptyIndex
       /\ RootDataFile \notin DOMAIN pkl

\* C17: a client call that is running eventually returns: every
\* grab_all_chapters terminates, whatever fails.
C17_Terminates == ~Idle ~> Idle

\* C17 witness: a crawl has returned after the site went down during it and
\* after the discovery was retried.
C17_Witness ==
    /\ obs.op = "grab_all_chapters" /\ Idle
    /\ down /\ obs.passes > 1

\* a step in which a get_page_source call returns success
FetchSucceeds ==
    /\ At("get_page_source", "wait")
    /\ stack' = Rest
    /\ ret'.status

\* C18: a fetch that returns success adds its body's length to the byte
\* counter and 1 to the request counter; no other step changes the byte
\* counter or lowers the request counter; an attempt that raises leaves both
\* counters and the next request time as they were.
C18_Counters ==
    [][/\ FetchSucceeds =>
            /\ total_bytes' = total_bytes + BodyLen(ret'.body)
            /\ total_req_count' = total_req_count + 1
       /\ ~FetchSucceeds =>
            /\ total_bytes' = total_bytes
            /\ total_req_count' >= total_req_count
       /\ TransportError =>
            UNCHANGED <<total_req_count, total_bytes, next_request_time>>]_vars

\* C18 witness: the first attempt of the instance raised and the second one
\* was answered with 200: two attempts, one request counted, bytes counted.
C18_Witness ==
    /\ obs.attempts = 2
    /\ total_req_count = 1
    /\ total_bytes > 0
    /\ fail_left < MaxFailures

\* C19: get_chapter_page calls the fetcher for a page view at most
\* DefaultRetries + 1 times; when the last of them has failed it returns
\* without an exception, having requested no image and written no file; and
\* it requests the image at most once, a failed image leaving no file.
C19_PageRetry ==
    obs.op = "get_chapter_page" =>
        /\ obs.views <= DefaultRetries + 1
        /\ obs.imaged <= 1
        /\ (Idle /\ ~ret.status) => ~obs.wrote /\ raised = NoError
        /\ (Idle /\ ~ret.status /\ obs.views = DefaultRetries + 1) =>
              obs.imaged = 0

\* C19 witness: get_chapter_page has given up a page of the index after
\* DefaultRetries + 1 failed requests of its page view.
C19_Witness ==
    /\ obs.op = "get_chapter_page" /\ Idle
    /\ Has(available_chapters, obs.arg[1])
    /\ obs.arg[2] \in 1..Get(available_chapters, obs.arg[1]).pages
    /\ obs.views = DefaultRetries + 1
    /\ ~ret.status /\ obs.imaged = 0

====
